---------------------------- MODULE Spec2Model ----------------------------
(***************************************************************************)
(* def-marl: value-function modules (defmarl/algo/module/value.py), the    *)
(* latent-conditioning wrapper (defmarl/algo/module/ef_wrapper.py) and the *)
(* Rollout container (defmarl/trainer/data.py).                            *)
(*                                                                         *)
(* An array is a record [shape, data]: shape is the tuple of dimensions,   *)
(* data the entries in row-major order.  Entries are fixed-point numbers   *)
(* with Unit standing for 1.0; Unit is a multiple of every agent count of  *)
(* the model, so that the mean over the agent axis of whole-valued         *)
(* embeddings is exact.                                                    *)
(***************************************************************************)
EXTENDS Integers, Sequences, FiniteSets, TLC

VARIABLES
    obj,     \* the module / facade / container under construction or use
    params,  \* the parameter tensors handed to apply (a seed naming them)
    carry,   \* the recurrent state the caller threads between get_value calls
    last,    \* the latest call: its arguments and what it returned or raised
    prev,    \* the call before it (kept to compare two runs of one network)
    steps    \* number of calls made on obj

vars == <<obj, params, carry, last, prev, steps>>

---------------------------------------------------------------------------
(* Bounds of the model *)

MaxAgents == 4
MaxSteps == 2
MaxDim == 2

(* Program constants *)

GnnOutDimDefault == 16
HeadHid == 64
RnnFeatures == 64
ZEncNz == 8
DenseOne == 1
NOutDefault == 1
LayersDefault == 1
GnnMsgDim == 32
GnnHeads == 3

---------------------------------------------------------------------------
(* Arrays *)

RECURSIVE Fact(_)
Fact(n) == IF n <= 1 THEN 1 ELSE n * Fact(n - 1)

Unit == Fact(MaxAgents)

RECURSIVE Prod(_)
Prod(s) == IF s = <<>> THEN 1 ELSE Head(s) * Prod(Tail(s))

RECURSIVE SumRange(_, _, _)
SumRange(s, lo, hi) ==
    IF lo > hi THEN 0
    ELSE IF lo = hi THEN s[lo]
    ELSE LET mid == (lo + hi) \div 2
         IN  SumRange(s, lo, mid) + SumRange(s, mid + 1, hi)

SumSeq(s) == SumRange(s, 1, Len(s))

Front(s) == SubSeq(s, 1, Len(s) - 1)
Last(s) == s[Len(s)]

None == [shape |-> <<>>, data |-> <<>>, none |-> TRUE]
IsNone(a) == "none" \in DOMAIN a

\* the function f on 1..n as a tuple
Tuple(f, n) == SubSeq(f, 1, n)

Arr(shape, data) == [shape |-> shape, data |-> Tuple(data, Prod(shape))]
Zeros(shape) == Arr(shape, [i \in 1..Prod(shape) |-> 0])
Full(shape, v) == Arr(shape, [i \in 1..Prod(shape) |-> v])
Ndim(a) == Len(a.shape)

\* the array seen as Lead(a) rows along its last axis, each Width(a) wide
Width(a) == Last(a.shape)
Lead(a) == Prod(Front(a.shape))
Row(a, i) == SubSeq(a.data, (i - 1) * Width(a) + 1, i * Width(a))

\* the rows, each w wide, laid end to end
Flatten(rows, w) ==
    Tuple([i \in 1..(Len(rows) * w) |-> rows[((i - 1) \div w) + 1][((i - 1) % w) + 1]],
          Len(rows) * w)

\* an array of the leading shape `lead` whose rows are `rows`, each w wide
FromRows(lead, w, rows) == Arr(lead \o <<w>>, Flatten(rows, w))

\* x.mean(axis=0, keepdims=kd) of a rank-2 array
MeanAxis0(x, keepdims) ==
    LET m == x.shape[1]
        w == x.shape[2]
        col(j) == SumSeq(Tuple([i \in 1..m |-> Row(x, i)[j]], m)) \div m
    IN  Arr(IF keepdims THEN <<1, w>> ELSE <<w>>, [j \in 1..w |-> col(j)])

\* jnp.tile(x, (reps, 1)) of a rank-2 array
Tile(x, reps) ==
    Arr(<<x.shape[1] * reps, x.shape[2]>>,
        Flatten(Tuple([r \in 1..reps |-> x.data], reps), Len(x.data)))

\* jnp.concatenate([a, b], axis=-1) is defined when the ranks agree and every
\* axis but the last has the same size; it broadcasts nothing
CanConcatenate(a, b) ==
    /\ ~IsNone(a) /\ ~IsNone(b)
    /\ Ndim(a) = Ndim(b) /\ Ndim(a) >= 1
    /\ Front(a.shape) = Front(b.shape)

Concatenate(a, b) ==
    FromRows(Front(a.shape), Width(a) + Width(b),
             Tuple([i \in 1..Lead(a) |-> Row(a, i) \o Row(b, i)], Lead(a)))

---------------------------------------------------------------------------
(* Layers.  The parameters are fixed by `params`; every Dense of a network *)
(* has its own kernel, told apart by `salt` (its place in the network).    *)

KernelIn(p, salt, k) == IF (k + p + salt) % 3 = 0 THEN -1 ELSE (k + p + salt) % 3
KernelOut(p, salt, j) == IF j = 1 THEN 1 ELSE (j + p + salt) % 2
Bias(p, salt, j) == (p + salt + j) % 2

\* nn.Dense(features): an affine map of the last axis
Dense(p, salt, features, x) ==
    LET w == Width(x)
        n == Lead(x)
        \* the kernel is the outer product of KernelIn and KernelOut
        dot(row) == SumSeq(Tuple([k \in 1..w |-> KernelIn(p, salt, k) * row[k]], w))
        dots == Tuple([i \in 1..n |-> dot(Row(x, i))], n)
        col == Tuple([j \in 1..features |->
                         <<KernelOut(p, salt, j), Bias(p, salt, j) * Unit>>], features)
    IN  Arr(Front(x.shape) \o <<features>>,
            [e \in 1..(n * features) |->
                LET c == col[((e - 1) % features) + 1]
                IN  c[1] * dots[((e - 1) \div features) + 1] + c[2]])

Relu(x) == Arr(x.shape, [i \in 1..Len(x.data) |-> IF x.data[i] > 0 THEN x.data[i] ELSE 0])

\* nn.tanh: odd, monotone, bounded by 1.0 (piecewise linear here)
Tanh(x) ==
    Arr(x.shape, [i \in 1..Len(x.data) |->
        IF x.data[i] > Unit THEN Unit
        ELSE IF x.data[i] < -Unit THEN -Unit ELSE x.data[i]])

\* MLP(hid_sizes, act=relu, act_final=True)
RECURSIVE MLP(_, _, _, _)
MLP(p, salt, hid_sizes, x) ==
    IF hid_sizes = <<>> THEN x
    ELSE MLP(p, salt + 1, Tail(hid_sizes), Relu(Dense(p, salt, Head(hid_sizes), x)))


---------------------------------------------------------------------------
(* What a call gives back: a result, or the exception that ended it *)

NoCls == [cls |-> "None"]
Ok(x, rnn_state, pre) == [st |-> "ok", x |-> x, rnn_state |-> rnn_state, pre |-> pre]
Raise(exc, line) == [st |-> exc, line |-> line]

---------------------------------------------------------------------------
(* Sub-modules the value functions are built from *)

\* gnn_cls()(graph, node_type=0, n_type=n_agents): the embeddings of the graph's
\* nodes of the given type, one row per node, out_dim wide.  A graph is held as
\* the embeddings the (fixed) GNN computes for its nodes of each type.
GNN(gnn, graph, node_type, n_type) == graph.emb[node_type + 1]

\* ZEncoder.__call__
ZEncoder(p, enc, z) ==
    IF IsNone(z) THEN Raise("TypeError", 21)
    ELSE LET norm_z == Arr(z.shape, [i \in 1..Len(z.data) |->
                              ((z.data[i] - enc.z_mean) * Unit) \div enc.z_scale])
             enc_z == Dense(p, 10, enc.nz, norm_z)
         IN  Ok(Tanh(enc_z), None, None)

\* RNN(rnn_cls, rnn_layers)(x, rnn_state): the cell applied to every row of x
\* and the incoming state; its output is `features` wide and the state it
\* returns has the shape of the one it was given
RNN(p, rnn, x, rnn_state) ==
    LET h == Tanh(Dense(p, 30, rnn.features, x))
        s == SumSeq(h.data) + SumSeq(rnn_state.data)
        out == Arr(h.shape, [i \in 1..Len(h.data) |->
                   IF h.data[i] + s > Unit THEN Unit
                   ELSE IF h.data[i] + s < -Unit THEN -Unit ELSE h.data[i] + s])
        new == Arr(rnn_state.shape, [i \in 1..Len(rnn_state.data) |->
                   IF rnn_state.data[i] + s + Unit > Unit THEN Unit
                   ELSE IF rnn_state.data[i] + s + Unit < -Unit THEN -Unit
                   ELSE rnn_state.data[i] + s + Unit])
    IN  [x |-> out, rnn_state |-> new]

---------------------------------------------------------------------------
(* value.py: the optional recurrent cell, lines 66-68 and 106-108 *)

RnnStepLeak(p, fn, x, rnn_state) == [x |-> x, rnn_state |-> x]

RnnStep(p, fn, x, rnn_state) ==
    IF fn.rnn_cls # NoCls
    THEN RNN(p, fn.rnn_cls, x, rnn_state)
    ELSE [x |-> x, rnn_state |-> rnn_state]

(* value.py: StateFn *)

StateFnAlwaysValue(p, fn, obs, rnn_state, n_agents, get_value) ==
    LET x0 == GNN(fn.gnn_cls, obs, 0, n_agents)
        x1 == MeanAxis0(x0, FALSE)
        x2 == MLP(p, 20, fn.head_cls.hid_sizes, x1)
    IN  Ok(Dense(p, 40, DenseOne, x2), rnn_state, x1)

StateFn(p, fn, obs, rnn_state, n_agents, get_value) ==
    LET x0 == GNN(fn.gnn_cls, obs, 0, n_agents)
        x1 == MeanAxis0(x0, FALSE)
        x2 == MLP(p, 20, fn.head_cls.hid_sizes, x1)
        x3 == IF get_value THEN Dense(p, 40, DenseOne, x2) ELSE x2
    IN  Ok(x3, rnn_state, x1)

(* value.py: RStateFn *)

RPreHeadNoKeepdims(p, fn, graph, n_agents, z) ==
    LET x0 == GNN(fn.gnn_cls, graph, 0, n_agents)
        x1 == MeanAxis0(x0, FALSE)
    IN  IF fn.z_encoder_cls = NoCls THEN Ok(x1, None, None)
        ELSE LET e == ZEncoder(p, fn.z_encoder_cls, z)
             IN  IF e.st # "ok" THEN e
                 ELSE IF ~CanConcatenate(x1, e.x) THEN Raise("TypeError", 61)
                 ELSE Ok(Concatenate(x1, e.x), None, None)

\* lines 53-61: pooled embedding, with the encoded latent appended
RPreHead(p, fn, graph, n_agents, z) ==
    LET x0 == GNN(fn.gnn_cls, graph, 0, n_agents)
        x1 == MeanAxis0(x0, TRUE)
    IN  IF fn.z_encoder_cls = NoCls THEN Ok(x1, None, None)
        ELSE LET e == ZEncoder(p, fn.z_encoder_cls, z)
             IN  IF e.st # "ok" THEN e
                 ELSE IF ~CanConcatenate(x1, e.x) THEN Raise("TypeError", 61)
                 ELSE Ok(Concatenate(x1, e.x), None, None)

RStateFn(p, fn, graph, rnn_state, n_agents, z) ==
    LET pre == RPreHead(p, fn, graph, n_agents, z)
    IN  IF pre.st # "ok" THEN pre
        ELSE LET x2 == MLP(p, 20, fn.head_cls.hid_sizes, pre.x)
                 r == RnnStep(p, fn, x2, rnn_state)
                 x4 == Dense(p, 40, fn.n_out, r.x)
             IN  Ok(x4, r.rnn_state, pre.x)

(* value.py: DecRStateFn *)

DecPreHeadOwnRow(p, fn, graph, n_agents, z) ==
    LET x0 == GNN(fn.gnn_cls, graph, 0, n_agents)
    IN  IF fn.use_global_info /\ x0.shape[1] # n_agents THEN Raise("TypeError", 95)
        ELSE LET x1 == IF fn.use_global_info THEN Concatenate(x0, x0) ELSE x0
             IN  IF fn.z_encoder_cls = NoCls THEN Ok(x1, None, None)
                 ELSE LET e == ZEncoder(p, fn.z_encoder_cls, z)
                      IN  IF e.st # "ok" THEN e
                          ELSE IF ~CanConcatenate(x1, e.x) THEN Raise("TypeError", 100)
                          ELSE Ok(Concatenate(x1, e.x), None, None)

\* lines 91-100: per-agent embeddings, with the pooled embedding and the
\* encoded latent appended to every row
DecPreHead(p, fn, graph, n_agents, z) ==
    LET x0 == GNN(fn.gnn_cls, graph, 0, n_agents)
        x_global == MeanAxis0(x0, TRUE)
        tiled == Tile(x_global, n_agents)
    IN  IF fn.use_global_info /\ ~CanConcatenate(x0, tiled) THEN Raise("TypeError", 95)
        ELSE LET x1 == IF fn.use_global_info THEN Concatenate(x0, tiled) ELSE x0
             IN  IF fn.z_encoder_cls = NoCls THEN Ok(x1, None, None)
                 ELSE LET e == ZEncoder(p, fn.z_encoder_cls, z)
                      IN  IF e.st # "ok" THEN e
                          ELSE IF ~CanConcatenate(x1, e.x) THEN Raise("TypeError", 100)
                          ELSE Ok(Concatenate(x1, e.x), None, None)

DecRStateFnPooled(p, fn, graph, rnn_state, n_agents, z) ==
    RStateFn(p, fn, graph, rnn_state, n_agents, z)

DecRStateFnNoAsserts(p, fn, graph, rnn_state, n_agents, z) ==
    LET pre == DecPreHead(p, fn, graph, n_agents, z)
    IN  IF pre.st # "ok" THEN pre
        ELSE LET x2 == MLP(p, 20, fn.head_cls.hid_sizes, pre.x)
                 r == RnnStep(p, fn, x2, rnn_state)
             IN  Ok(Dense(p, 40, fn.n_out, r.x), r.rnn_state, pre.x)

DecRStateFn(p, fn, graph, rnn_state, n_agents, z) ==
    LET pre == DecPreHead(p, fn, graph, n_agents, z)
    IN  IF pre.st # "ok" THEN pre
        ELSE LET x2 == MLP(p, 20, fn.head_cls.hid_sizes, pre.x)
             IN  IF x2.shape[1] # n_agents THEN Raise("AssertionError", 104)
                 ELSE LET r == RnnStep(p, fn, x2, rnn_state)
                          x4 == Dense(p, 40, fn.n_out, r.x)
                      IN  IF x4.shape # <<n_agents, fn.n_out>>
                          THEN Raise("AssertionError", 112)
                          ELSE Ok(x4, r.rnn_state, pre.x)

---------------------------------------------------------------------------
(* value.py: ValueNet *)

MakeZEncoderAlways(use_ef) ==
    [cls |-> "ZEncoder", nz |-> ZEncNz, z_mean |-> Unit, z_scale |-> Unit]

\* lines 158-163: the latent encoder's factory, or None
MakeZEncoder(use_ef) ==
    IF use_ef
    THEN [cls |-> "ZEncoder", nz |-> ZEncNz, z_mean |-> Unit, z_scale |-> Unit]
    ELSE NoCls

ValueNet(node_dim, edge_dim, n_agents, n_out, use_rnn, rnn_layers, gnn_layers, gnn_out_dim, use_lstm, use_ef, decompose, use_global_info) ==
    LET gnn == [cls |-> "GraphTransformerGNN", msg_dim |-> GnnMsgDim,
                out_dim |-> gnn_out_dim, n_heads |-> GnnHeads, n_layers |-> gnn_layers]
        head == [cls |-> "MLP", hid_sizes |-> <<HeadHid, HeadHid>>,
                 act_final |-> TRUE, name |-> "ValueGNNHead"]
        z_encoder == MakeZEncoder(use_ef)
        rnn_base == IF use_rnn
                    THEN [cls |-> IF use_lstm THEN "LSTMCell" ELSE "GRUCell",
                          features |-> RnnFeatures]
                    ELSE NoCls
        rnn == IF use_rnn
               THEN [cls |-> "RNN", rnn_cls |-> rnn_base, features |-> rnn_base.features,
                     rnn_layers |-> rnn_layers]
               ELSE NoCls
        net == IF use_rnn
               THEN IF decompose
                    THEN [cls |-> "DecRStateFn", gnn_cls |-> gnn, head_cls |-> head,
                          n_out |-> n_out, rnn_cls |-> rnn, z_encoder_cls |-> z_encoder,
                          use_global_info |-> use_global_info]
                    ELSE [cls |-> "RStateFn", gnn_cls |-> gnn, head_cls |-> head,
                          n_out |-> n_out, rnn_cls |-> rnn, z_encoder_cls |-> z_encoder]
               ELSE IF decompose
                    THEN [cls |-> "DecRStateFn", gnn_cls |-> gnn, head_cls |-> head,
                          n_out |-> n_out, rnn_cls |-> NoCls, z_encoder_cls |-> z_encoder,
                          use_global_info |-> use_global_info]
                    ELSE [cls |-> "RStateFn", gnn_cls |-> gnn, head_cls |-> head,
                          n_out |-> n_out, rnn_cls |-> NoCls, z_encoder_cls |-> z_encoder]
    IN  [cls |-> "ValueNet", node_dim |-> node_dim, edge_dim |-> edge_dim,
         n_agents |-> n_agents, n_out |-> n_out, gnn_out_dim |-> gnn_out_dim,
         use_ef |-> use_ef, decompose |-> decompose, use_global_info |-> use_global_info,
         gnn |-> gnn, head |-> head, use_rnn |-> use_rnn, z_encoder |-> z_encoder,
         rnn_base |-> rnn_base, rnn |-> rnn, net |-> net]

\* the cell's initialize_carry(key, (gnn_out_dim,)): zeros whatever the key, one
\* carry for a GRU cell and two (c, h) for an LSTM cell
CellInitializeCarry(cell, key, input_shape) ==
    IF cell.cls = "LSTMCell"
    THEN Zeros(<<2>> \o Front(input_shape) \o <<cell.features>>)
    ELSE Zeros(Front(input_shape) \o <<cell.features>>)

initialize_carry_hidden(self, key) ==
    IF self.use_rnn
    THEN CellInitializeCarry(self.rnn_base, key, <<self.gnn_out_dim>>)
    ELSE Zeros(<<RnnFeatures>>)

initialize_carry(self, key) ==
    IF self.use_rnn
    THEN CellInitializeCarry(self.rnn_base, key, <<self.gnn_out_dim>>)
    ELSE Zeros(<<self.gnn_out_dim>>)

\* self.net.apply(params, obs, rnn_state, self.n_agents, z)
Apply(net, p, obs, rnn_state, n_agents, z) ==
    IF net.cls = "DecRStateFn" THEN DecRStateFn(p, net, obs, rnn_state, n_agents, z)
    ELSE RStateFn(p, net, obs, rnn_state, n_agents, z)

get_value(self, p, obs, rnn_state, z) ==
    Apply(self.net, p, obs, rnn_state, self.n_agents, z)

---------------------------------------------------------------------------
(* ef_wrapper.py: EFWrapper *)

EfOk(x, feat, calls) == [st |-> "ok", x |-> x, feat |-> feat, calls |-> calls]
EfRaise(exc, line, calls) == [st |-> exc, line |-> line, calls |-> calls]

\* base_cls()(feat): the wrapped network, an MLP here
BaseNet(p, base, feat) == MLP(p, 50, base.hid_sizes, feat)

EFWrapperNoAssert(p, self, obs, z) ==
    LET z1 == Arr(z.shape \o <<1>>, z.data)
        e == ZEncoder(p, self.z_encoder_cls, z1)
    IN  IF ~CanConcatenate(obs, e.x)
        THEN EfRaise("TypeError", 41, <<"z_encoder_cls">>)
        ELSE LET feat == Concatenate(obs, e.x)
             IN  EfOk(BaseNet(p, self.base_cls, feat), feat,
                      <<"z_encoder_cls", "base_cls">>)

EFWrapper(p, self, obs, z) ==
    IF Ndim(obs) # Ndim(z) + 1 THEN EfRaise("AssertionError", 38, <<>>)
    ELSE LET z1 == Arr(z.shape \o <<1>>, z.data)
             e == ZEncoder(p, self.z_encoder_cls, z1)
         IN  IF ~CanConcatenate(obs, e.x)
             THEN EfRaise("TypeError", 41, <<"z_encoder_cls">>)
             ELSE LET feat == Concatenate(obs, e.x)
                  IN  EfOk(BaseNet(p, self.base_cls, feat), feat,
                           <<"z_encoder_cls", "base_cls">>)

---------------------------------------------------------------------------
(* trainer/data.py: Rollout *)

\* NamedTuple construction: the fields are stored as given
Rollout(graph, actions, rnn_states, rewards, costs, dones, log_pis, next_graph, zs, z_global) ==
    [cls |-> "Rollout", graph |-> graph, actions |-> actions,
     rnn_states |-> rnn_states, rewards |-> rewards, costs |-> costs,
     dones |-> dones, log_pis |-> log_pis, next_graph |-> next_graph,
     zs |-> zs, z_global |-> z_global]

\* a.shape[i] (i counted from 0): an IndexError past the rank
ShapeAt(a, i, line) ==
    IF i + 1 > Ndim(a) THEN Raise("IndexError", line)
    ELSE [st |-> "ok", value |-> a.shape[i + 1]]

length(self) == ShapeAt(self.rewards, 0, 22)
time_horizon(self) == ShapeAt(self.rewards, 1, 26)
num_agents(self) == ShapeAt(self.rewards, 2, 30)
n_data_agents(self) ==
    LET l == length(self)
        t == num_agents(self)
    IN  IF l.st # "ok" THEN l
        ELSE IF t.st # "ok" THEN t
        ELSE [st |-> "ok", value |-> l.value * t.value]

n_data(self) ==
    LET l == length(self)
        t == time_horizon(self)
    IN  IF l.st # "ok" THEN l
        ELSE IF t.st # "ok" THEN t
        ELSE [st |-> "ok", value |-> l.value * t.value]

---------------------------------------------------------------------------
(* Inputs *)

ParamSeeds == {1}
Keys == {0, 1}
AgentCounts == 1..MaxAgents

\* a graph with m type-0 nodes whose embeddings are d wide: the first h rows
\* are all 1.0, the others all 0.0
Graph(m, d, h) ==
    [emb |-> <<Arr(<<m, d>>,
                   [i \in 1..(m * d) |-> IF i <= h * d THEN Unit ELSE 0])>>]
Graphs(m, d) == {Graph(m, d, h) : h \in 0..m}

\* what the environment shows the agents at time step t
Observation(n, d, t) == Graph(n, d, (t + 1) % (n + 1))

\* the graph with entry j of agent k's embedding raised by 1.0
Perturb(graph, k, j) ==
    LET x == graph.emb[1]
        at == (k - 1) * Width(x) + j
    IN  [emb |-> <<Arr(x.shape, [x.data EXCEPT ![at] = @ + Unit])>>]

\* latent codes: none, one for the team, one per agent
Latents(n) == {None, Full(<<1, 1>>, 0), Full(<<n, 1>>, 2 * Unit)}

RECURSIVE Shapes(_)
Shapes(rank) ==
    IF rank = 0 THEN {<<>>}
    ELSE {<<n>> \o s : n \in 1..MaxDim, s \in Shapes(rank - 1)}

NoCall == [op |-> "none"]

---------------------------------------------------------------------------
(* The state machine: nothing is constructed at first; one object is        *)
(* constructed and then used.                                               *)

Init ==
    /\ obj = NoCls
    /\ params \in ParamSeeds
    /\ carry = None
    /\ last = NoCall
    /\ prev = NoCall
    /\ steps = 0

Constructed(r) == [op |-> "__init__", st |-> "ok", cls |-> r.cls]

(* ValueNet *)

NewValueNet ==
    /\ obj = NoCls
    /\ \E n_agents \in {2, MaxAgents}, use_rnn, use_lstm, use_ef, decompose, use_global_info \in BOOLEAN,
          dims \in {<<NOutDefault, GnnOutDimDefault>>, <<2, 2>>} :
          /\ use_lstm => use_rnn
          /\ obj' = ValueNet(3, 2, n_agents, dims[1], use_rnn, LayersDefault, LayersDefault,
                             dims[2], use_lstm, use_ef, decompose, use_global_info)
    /\ last' = Constructed(obj')
    /\ UNCHANGED <<params, carry, prev, steps>>

InitializeCarry ==
    /\ obj.cls = "ValueNet"
    /\ IsNone(carry)
    /\ \E key \in Keys :
          /\ carry' = initialize_carry(obj, key)
          /\ last' = [op |-> "initialize_carry", key |-> key, ret |-> carry']
    /\ UNCHANGED <<obj, params, prev, steps>>

\* one time step of the caller: query the value, keep the returned state
GetValue ==
    /\ obj.cls = "ValueNet"
    /\ ~IsNone(carry)
    /\ steps < MaxSteps
    /\ \E z \in Latents(obj.n_agents) :
          LET graph == Observation(obj.n_agents, obj.gnn_out_dim, steps)
              r == get_value(obj, params, graph, carry, z)
          IN  /\ last' = [op |-> "get_value", graph |-> graph, rnn_state |-> carry,
                          n_agents |-> obj.n_agents, z |-> z, ret |-> r]
              /\ carry' = IF r.st = "ok" THEN r.rnn_state ELSE carry
    /\ steps' = steps + 1
    /\ UNCHANGED <<obj, params, prev>>

(* DecRStateFn used directly *)

NewDecRStateFn ==
    /\ obj = NoCls
    /\ \E n_out \in {1, 2}, rnn, ef, use_global_info \in BOOLEAN :
          obj' = [cls |-> "DecRStateFn",
                  gnn_cls |-> [cls |-> "GNN", out_dim |-> 2],
                  head_cls |-> [cls |-> "MLP", hid_sizes |-> <<3, 2>>],
                  n_out |-> n_out,
                  rnn_cls |-> IF rnn THEN [cls |-> "RNN", features |-> 3] ELSE NoCls,
                  z_encoder_cls |-> IF ef THEN [cls |-> "ZEncoder", nz |-> 2,
                                                z_mean |-> Unit, z_scale |-> Unit]
                                    ELSE NoCls,
                  use_global_info |-> use_global_info]
    /\ last' = Constructed(obj')
    /\ UNCHANGED <<params, carry, prev, steps>>

CallDecRStateFn ==
    /\ obj.cls = "DecRStateFn"
    /\ last.op = "__init__"
    /\ \E n_agents \in AgentCounts, m \in AgentCounts :
       \E graph \in Graphs(m, obj.gnn_cls.out_dim), z \in Latents(n_agents),
          rnn_state \in {Zeros(<<2>>)} :
          last' = [op |-> "__call__", graph |-> graph, rnn_state |-> rnn_state,
                   n_agents |-> n_agents, z |-> z,
                   ret |-> DecRStateFn(params, obj, graph, rnn_state, n_agents, z)]
    /\ steps' = steps + 1
    /\ UNCHANGED <<obj, params, carry, prev>>

\* the same call again with one entry of one agent's embedding changed
PerturbDecRStateFn ==
    /\ obj.cls = "DecRStateFn"
    /\ last.op = "__call__" /\ last.ret.st = "ok"
    /\ prev = NoCall
    /\ \E k \in 1..last.n_agents, j \in 1..obj.gnn_cls.out_dim :
          LET graph == Perturb(last.graph, k, j)
          IN  last' = [last EXCEPT !.graph = graph,
                          !.ret = DecRStateFn(params, obj, graph, last.rnn_state,
                                              last.n_agents, last.z)]
    /\ prev' = last
    /\ steps' = steps + 1
    /\ UNCHANGED <<obj, params, carry>>

(* StateFn *)

NewStateFn ==
    /\ obj = NoCls
    /\ \E hid_sizes \in {<<3>>, <<4, 2>>} :
          obj' = [cls |-> "StateFn", gnn_cls |-> [cls |-> "GNN", out_dim |-> 2],
                  head_cls |-> [cls |-> "MLP", hid_sizes |-> hid_sizes]]
    /\ last' = Constructed(obj')
    /\ UNCHANGED <<params, carry, prev, steps>>

CallStateFn ==
    /\ obj.cls = "StateFn"
    /\ last.op = "__init__"
    /\ \E n_agents \in AgentCounts, gv \in BOOLEAN :
       \E obs \in Graphs(n_agents, obj.gnn_cls.out_dim),
          rnn_state \in {None, Zeros(<<2>>), Full(<<1, 2>>, Unit)} :
          last' = [op |-> "__call__", graph |-> obs, rnn_state |-> rnn_state,
                   n_agents |-> n_agents, get_value |-> gv,
                   ret |-> StateFn(params, obj, obs, rnn_state, n_agents, gv)]
    /\ steps' = steps + 1
    /\ UNCHANGED <<obj, params, carry, prev>>

(* EFWrapper *)

NewEFWrapper ==
    /\ obj = NoCls
    /\ \E nz \in {1, 2} :
          obj' = [cls |-> "EFWrapper",
                  base_cls |-> [cls |-> "MLP", hid_sizes |-> <<3>>],
                  z_encoder_cls |-> [cls |-> "ZEncoder", nz |-> nz,
                                     z_mean |-> Unit, z_scale |-> Unit]]
    /\ last' = Constructed(obj')
    /\ UNCHANGED <<params, carry, prev, steps>>

CallEFWrapper ==
    /\ obj.cls = "EFWrapper"
    /\ last.op = "__init__"
    /\ \E ro \in 1..3, rz \in 0..2 :
       \E so \in Shapes(ro), sz \in Shapes(rz), v \in {0, 2 * Unit} :
          LET obs == Full(so, Unit)
              z == Full(sz, v)
          IN  last' = [op |-> "__call__", obs |-> obs, z |-> z,
                       ret |-> EFWrapper(params, obj, obs, z)]
    /\ steps' = steps + 1
    /\ UNCHANGED <<obj, params, carry, prev>>

(* Rollout *)

NewRollout ==
    /\ obj = NoCls
    /\ \E rr \in 2..4 :
       \E rewards \in Shapes(rr), a, c \in {<<1>>, <<MaxDim + 1, 1, 1>>} :
          obj' = Rollout(Graph(1, 1, 0), Zeros(a), Zeros(a), Zeros(rewards), Zeros(c),
                         Zeros(c), Zeros(a), Graph(1, 1, 1), None, None)
    /\ last' = Constructed(obj')
    /\ UNCHANGED <<params, carry, prev, steps>>

ReadLength ==
    /\ obj.cls = "Rollout"
    /\ last' = [op |-> "length", ret |-> length(obj)]
    /\ UNCHANGED <<obj, params, carry, prev, steps>>

ReadTimeHorizon ==
    /\ obj.cls = "Rollout"
    /\ last' = [op |-> "time_horizon", ret |-> time_horizon(obj)]
    /\ UNCHANGED <<obj, params, carry, prev, steps>>

ReadNumAgents ==
    /\ obj.cls = "Rollout"
    /\ last' = [op |-> "num_agents", ret |-> num_agents(obj)]
    /\ UNCHANGED <<obj, params, carry, prev, steps>>

ReadNData ==
    /\ obj.cls = "Rollout"
    /\ last' = [op |-> "n_data", ret |-> n_data(obj)]
    /\ UNCHANGED <<obj, params, carry, prev, steps>>

Next ==
    \/ NewValueNet
    \/ InitializeCarry
    \/ GetValue
    \/ NewDecRStateFn
    \/ CallDecRStateFn
    \/ PerturbDecRStateFn
    \/ NewStateFn
    \/ CallStateFn
    \/ NewEFWrapper
    \/ CallEFWrapper
    \/ NewRollout
    \/ ReadLength
    \/ ReadTimeHorizon
    \/ ReadNumAgents
    \/ ReadNData

Spec == Init /\ [][Next]_vars

---------------------------------------------------------------------------
(* Properties *)

IsValueNet == obj.cls = "ValueNet"
GotValue == IsValueNet /\ last.op = "get_value"
DecCall == obj.cls = "DecRStateFn" /\ last.op = "__call__"
EfCall == obj.cls = "EFWrapper" /\ last.op = "__call__"
NetOf == IF IsValueNet THEN obj.net ELSE obj
Emb(graph) == graph.emb[1]
IsZeros(a, n) ==
    /\ ~IsNone(a)
    /\ a.shape = <<n>>
    /\ Len(a.data) = n
    /\ \A i \in 1..n : a.data[i] = 0

C1_Config ==
    /\ IsValueNet
    /\ obj.n_agents = 4 /\ obj.n_out = NOutDefault
    /\ ~obj.use_rnn /\ ~obj.use_ef /\ ~obj.decompose

\* C1 as stated: with n_agents=4, use_rnn=False, use_ef=False, decompose=False and
\* the default n_out, get_value on a graph of 4 agent nodes returns a value of
\* shape (1,).
C1_Original ==
    (C1_Config /\ last.op = "get_value")
        => (last.ret.st = "ok" /\ last.ret.x.shape = <<1>>)

\* C1 (amended): that call returns a value of shape (1, 1); the pooled value of
\* the non-decomposed network keeps the leading axis of mean(keepdims=True) and
\* has shape (1, n_out).
C1_PooledValueShape ==
    /\ (C1_Config /\ last.op = "get_value")
          => (last.ret.st = "ok" /\ last.ret.x.shape = <<1, 1>>)
    /\ (GotValue /\ ~obj.decompose /\ last.ret.st = "ok")
          => (last.ret.x.shape = <<1, obj.n_out>> /\ Len(last.ret.x.data) = obj.n_out)

C1_Witness ==
    /\ C1_Config /\ last.op = "get_value" /\ last.ret.st = "ok"
    /\ Emb(last.graph).shape[1] = 4
    /\ IsNone(last.z)

\* C2: without recurrence get_value returns the rnn_state it was given, so the
\* state threaded from initialize_carry stays the zero vector of shape
\* (gnn_out_dim,) at every step.
C2_StatePassThrough ==
    (IsValueNet /\ ~obj.use_rnn) =>
        /\ IsNone(carry) \/ IsZeros(carry, obj.gnn_out_dim)
        /\ (last.op = "get_value" /\ last.ret.st = "ok") =>
              /\ last.ret.rnn_state = last.rnn_state
              /\ carry = last.rnn_state

C2_Witness ==
    /\ GotValue /\ ~obj.use_rnn /\ obj.decompose /\ obj.use_ef /\ obj.use_global_info
    /\ last.ret.st = "ok"
    /\ steps >= 2

\* C3: a DecRStateFn call that returns, returns a value of shape
\* (n_agents, n_out), whatever use_global_info, z_encoder_cls and rnn_cls are.
C3_DecomposedShape ==
    (NetOf.cls = "DecRStateFn" /\ last.op \in {"__call__", "get_value"}
        /\ last.ret.st = "ok")
        => /\ last.ret.x.shape = <<last.n_agents, NetOf.n_out>>
           /\ Len(last.ret.x.data) = last.n_agents * NetOf.n_out

C3_Witness ==
    /\ DecCall /\ last.ret.st = "ok"
    /\ obj.use_global_info /\ obj.z_encoder_cls # NoCls /\ obj.rnn_cls # NoCls
    /\ obj.n_out = 2 /\ last.n_agents = 3
    /\ Emb(last.graph).shape[1] = 3

\* two returned calls of one DecRStateFn on graphs that differ in one entry
PerturbedPair ==
    /\ DecCall /\ prev.op = "__call__"
    /\ prev.ret.st = "ok" /\ last.ret.st = "ok"

Changed(i) == Row(Emb(prev.graph), i) # Row(Emb(last.graph), i)

\* C4: with use_global_info every agent's pre-head features are its own
\* embedding followed by the mean of all agents' embeddings, so a change of one
\* agent's embedding changes the pre-head features of every agent; without it
\* (and with neither recurrence nor latent) the change leaves the other agents'
\* pre-head features and output rows as they were.
C4_GlobalInfoDependence ==
    PerturbedPair =>
        LET x == Emb(last.graph)
            n == last.n_agents
            d == x.shape[2]
            changed == {i \in 1..n : Changed(i)}
        IN  /\ Cardinality(changed) = 1
            /\ obj.use_global_info =>
                  \A i \in 1..n :
                     /\ SubSeq(Row(last.ret.pre, i), 1, d) = Row(x, i)
                     /\ \A j \in 1..d :
                           n * Row(last.ret.pre, i)[d + j]
                              = SumSeq([r \in 1..n |-> Row(x, r)[j]])
                     /\ Row(last.ret.pre, i) # Row(prev.ret.pre, i)
            /\ (obj.use_global_info /\ obj.z_encoder_cls = NoCls) =>
                  last.ret.pre.shape = <<n, 2 * d>>
            /\ (~obj.use_global_info /\ obj.rnn_cls = NoCls /\ obj.z_encoder_cls = NoCls) =>
                  /\ last.ret.pre = x
                  /\ \A i \in (1..n) \ changed :
                        /\ Row(last.ret.pre, i) = Row(prev.ret.pre, i)
                        /\ Row(last.ret.x, i) = Row(prev.ret.x, i)

C4_Witness ==
    /\ PerturbedPair
    /\ obj.use_global_info /\ obj.z_encoder_cls = NoCls /\ obj.rnn_cls = NoCls
    /\ last.n_agents = 3
    /\ \A i \in 1..3 : Row(last.ret.pre, i) # Row(prev.ret.pre, i)

\* the wired network appends the pooled embedding to the per-agent features
FusesGlobalInfo(net) == net.cls = "DecRStateFn" /\ net.use_global_info

\* C5 as stated: every flag is honoured in the wired network, use_global_info
\* included, for every combination of the flags.
C5_Original ==
    IsValueNet =>
        /\ (obj.net.cls = "DecRStateFn") <=> obj.decompose
        /\ (obj.net.rnn_cls # NoCls) <=> obj.use_rnn
        /\ (obj.net.z_encoder_cls # NoCls) <=> obj.use_ef
        /\ FusesGlobalInfo(obj.net) <=> obj.use_global_info

\* C5 (amended): construction succeeds for every combination; decompose,
\* use_rnn and use_ef are honoured; the network fuses the pooled embedding into
\* the per-agent features iff decompose and use_global_info are both true (the
\* pooled RStateFn is never given the flag).
C5_FlagsHonoured ==
    IsValueNet =>
        /\ obj.net.cls = IF obj.decompose THEN "DecRStateFn" ELSE "RStateFn"
        /\ (obj.net.rnn_cls # NoCls) <=> obj.use_rnn
        /\ (obj.net.z_encoder_cls # NoCls) <=> obj.use_ef
        /\ FusesGlobalInfo(obj.net) <=> (obj.decompose /\ obj.use_global_info)
        /\ ~obj.decompose => "use_global_info" \notin DOMAIN obj.net

C5_Witness ==
    /\ IsValueNet /\ last.op = "__init__" /\ last.st = "ok"
    /\ ~obj.decompose /\ obj.use_global_info /\ obj.use_rnn /\ obj.use_ef

\* C6: without recurrence initialize_carry returns the zero vector of shape
\* (gnn_out_dim,) for every key and every setting of the other flags.
C6_ZeroCarry ==
    (IsValueNet /\ last.op = "initialize_carry" /\ ~obj.use_rnn)
        => /\ IsZeros(last.ret, obj.gnn_out_dim)
           /\ carry = last.ret

C6_Witness ==
    /\ IsValueNet /\ last.op = "initialize_carry" /\ ~obj.use_rnn
    /\ last.key = 1 /\ obj.decompose /\ obj.use_ef
    /\ obj.gnn_out_dim = GnnOutDimDefault

\* the rollout with every field but rewards replaced
OtherFields(r, a) ==
    [r EXCEPT !.actions = a, !.rnn_states = a, !.costs = a, !.dones = a,
              !.log_pis = a, !.zs = a, !.z_global = a, !.graph = r.next_graph]

\* C7: for rewards of shape (length, time_horizon, num_agents, ...) the
\* properties are rewards.shape[0], [1], [2] and length * time_horizon; they
\* read no other field, and a Rollout with inconsistent fields is constructed
\* all the same.
C7_RolloutProperties ==
    (obj.cls = "Rollout" /\ Ndim(obj.rewards) >= 3) =>
        LET sh == obj.rewards.shape
            got(v) == [st |-> "ok", value |-> v]
        IN  /\ last.op = "__init__" => last.st = "ok"
            /\ last.op = "length" => last.ret = got(sh[1])
            /\ last.op = "time_horizon" => last.ret = got(sh[2])
            /\ last.op = "num_agents" => last.ret = got(sh[3])
            /\ last.op = "n_data" => last.ret = got(sh[1] * sh[2])
            /\ \A a \in {None, Zeros(<<1>>), Zeros(<<5, 7, 3>>)} :
                  /\ length(OtherFields(obj, a)) = length(obj)
                  /\ time_horizon(OtherFields(obj, a)) = time_horizon(obj)
                  /\ num_agents(OtherFields(obj, a)) = num_agents(obj)
                  /\ n_data(OtherFields(obj, a)) = n_data(obj)

C7_Witness ==
    /\ obj.cls = "Rollout" /\ last.op = "n_data"
    /\ obj.rewards.shape = <<1, 2, 1, 2>>
    /\ obj.actions.shape # obj.costs.shape
    /\ obj.actions.shape[1] # obj.rewards.shape[1]
    /\ last.ret.value = 2

\* C8: StateFn returns the head applied to the mean over the agent axis; the
\* result is as wide as the head without get_value and 1 wide with it; the
\* rnn_state comes back unchanged.
C8_StateFn ==
    (obj.cls = "StateFn" /\ last.op = "__call__") =>
        LET x == Emb(last.graph)
            n == x.shape[1]
            d == x.shape[2]
            r == last.ret
            hid == obj.head_cls.hid_sizes
            h == MLP(params, 20, hid, r.pre)
        IN  /\ r.st = "ok"
            /\ r.rnn_state = last.rnn_state
            /\ r.pre.shape = <<d>>
            /\ \A j \in 1..d : n * r.pre.data[j] = SumSeq([i \in 1..n |-> Row(x, i)[j]])
            /\ r.x.shape = <<IF last.get_value THEN 1 ELSE hid[Len(hid)]>>
            /\ r.x = IF last.get_value THEN Dense(params, 40, 1, h) ELSE h

C8_Witness ==
    /\ obj.cls = "StateFn" /\ last.op = "__call__"
    /\ ~last.get_value /\ obj.head_cls.hid_sizes = <<4, 2>>
    /\ last.n_agents = 3
    /\ last.rnn_state = Full(<<1, 2>>, Unit)
    /\ last.ret.x.shape = <<2>>

\* what a returned EFWrapper call must have done
EfDelegated ==
    LET r == last.ret
        nz == obj.z_encoder_cls.nz
        w == Width(last.obs)
    IN  /\ r.st = "ok"
        /\ r.calls = <<"z_encoder_cls", "base_cls">>
        /\ r.feat.shape = Front(last.obs.shape) \o <<w + nz>>
        /\ \A i \in 1..Lead(last.obs) : SubSeq(Row(r.feat, i), 1, w) = Row(last.obs, i)
        /\ r.x = BaseNet(params, obj.base_cls, r.feat)

EfAsserted ==
    /\ last.ret.st = "AssertionError"
    /\ last.ret.calls = <<>>

\* C9 as stated: a rank mismatch fails the assertion before any sub-module runs;
\* when the ranks match the base network is invoked once on the observation
\* concatenated with the encoded latent and its result is returned.
C9_Original ==
    EfCall =>
        IF Ndim(last.obs) # Ndim(last.z) + 1 THEN EfAsserted ELSE EfDelegated

\* C9 (amended): as stated when, besides the ranks, the observation's leading
\* axes equal the latent's shape; when the ranks match and they differ, the
\* concatenation raises after the encoder has run and the base network is not
\* invoked.
C9_EFWrapper ==
    EfCall =>
        IF Ndim(last.obs) # Ndim(last.z) + 1 THEN EfAsserted
        ELSE IF Front(last.obs.shape) = last.z.shape THEN EfDelegated
        ELSE /\ last.ret.st = "TypeError"
             /\ last.ret.calls = <<"z_encoder_cls">>

C9_Witness ==
    /\ EfCall /\ last.ret.st = "ok"
    /\ Ndim(last.obs) = 3 /\ last.obs.shape[1] = 2
    /\ obj.z_encoder_cls.nz = 2
    /\ Width(last.ret.feat) = Width(last.obs) + 2

\* a DecRStateFn call on a graph whose agent-node count is not n_agents
AgentMismatch == DecCall /\ Emb(last.graph).shape[1] # last.n_agents

\* C10 as stated: such a call ends in an assertion failure, for every setting
\* of use_global_info, latent conditioning and recurrence.
C10_Original == AgentMismatch => last.ret.st = "AssertionError"

\* C10 (amended): such a call never returns.  It ends in the assertion after
\* the head (line 104) when use_global_info is off and the latent, if any, has
\* one row per node; otherwise an earlier concatenation (line 95 or 100) or the
\* encoder raises a TypeError before any assertion is reached.
C10_MismatchIsFatal ==
    AgentMismatch =>
        LET r == last.ret
            m == Emb(last.graph).shape[1]
            preOk == /\ ~obj.use_global_info
                     /\ \/ obj.z_encoder_cls = NoCls
                        \/ (~IsNone(last.z) /\ last.z.shape[1] = m)
        IN  /\ r.st \in {"AssertionError", "TypeError"}
            /\ (r.st = "AssertionError") <=> preOk
            /\ r.st = "AssertionError" => r.line = 104
            /\ r.st = "TypeError" => r.line \in {21, 95, 100}
            /\ obj.use_global_info => (r.st = "TypeError" /\ r.line = 95)

C10_Witness ==
    /\ AgentMismatch /\ last.ret.st = "AssertionError"
    /\ obj.rnn_cls # NoCls /\ obj.z_encoder_cls # NoCls
    /\ last.n_agents = 3

===========================================================================
